---- MODULE Spec2Model ----
(***************************************************************************)
(* Verification model of the public-key toolkit: RSA key generation,       *)
(* RSA encryption/decryption/signature (rsa.py, rsa_digitalsignature.py),  *)
(* Diffie-Hellman parameter generation (diffie_hellman.py) and ElGamal     *)
(* (elgamal.py).                                                           *)
(*                                                                         *)
(* The number-theoretic and codec helpers the four files import from       *)
(* `funcs` (power_mod, multiplicative_inverse, miller_rabin,               *)
(* random_probable_prime, compute_block_size, blocks_from_bytes, ...) are  *)
(* modelled from their documented contracts.                               *)
(*                                                                         *)
(* Byte strings are sequences over 0..255.  Python exceptions are          *)
(* modelled as the `err` field of a result record.  Randomness (candidate  *)
(* draws, ElGamal exponents) is nondeterministic choice.  miller_rabin is  *)
(* taken at its stated confidence: a candidate is accepted exactly when    *)
(* no base in [2, candidate-2] is a compositeness witness.                 *)
(***************************************************************************)
EXTENDS Integers, Sequences, FiniteSets, TLC

(***************************************************************************)
(* Integer arithmetic                                                      *)
(***************************************************************************)
Abs(x) == IF x < 0 THEN -x ELSE x

RECURSIVE Pow2(_)
Pow2(k) == IF k <= 0 THEN 1 ELSE 2 * Pow2(k - 1)

RECURSIVE Pow256(_)
Pow256(k) == IF k <= 0 THEN 1 ELSE 256 * Pow256(k - 1)

\* a * b mod m without leaving the 32-bit range (0 <= a < m < 2^20, b < 2^20):
\* Python integers are unbounded, so no product of the program overflows.
MulMod(a, b, m) == ((((a * (b \div 1024)) % m) * 1024) + a * (b % 1024)) % m

RECURSIVE bitlength(_)
bitlength(x) == IF x <= 0 THEN 0 ELSE 1 + bitlength(x \div 2)

RECURSIVE gcd(_, _)
gcd(a, b) == IF b = 0 THEN Abs(a) ELSE gcd(b, a % b)

lcm(a, b) == IF a = 0 \/ b = 0 THEN 0 ELSE (Abs(a) \div gcd(a, b)) * Abs(b)

coprimes(a, b) == gcd(a, b) = 1

\* Binary (square-and-multiply) exponentiation; base reduced first,
\* exponent 0 gives 1 mod modulus.
RECURSIVE power_mod(_, _, _)
power_mod(base, exponent, modulus) ==
    IF exponent = 0 THEN 1 % modulus
    ELSE LET half == power_mod(base % modulus, exponent \div 2, modulus)
             sq   == MulMod(half, half, modulus)
         IN  IF exponent % 2 = 1 THEN MulMod(sq, base % modulus, modulus) ELSE sq

\* Extended Euclid: ExtEuclid(a, b) = <<g, x, y>> with a*x + b*y = g.
RECURSIVE ExtEuclid(_, _)
ExtEuclid(a, b) ==
    IF b = 0 THEN <<a, 1, 0>>
    ELSE LET r == ExtEuclid(b, a % b)
         IN  <<r[1], r[3], r[2] - (a \div b) * r[3]>>

\* The x in [0, m) with a*x = 1 (mod m); NoInverseError when gcd(a, m) # 1.
multiplicative_inverse(a, m) ==
    IF gcd(a, m) # 1 THEN [err |-> "NoInverseError", val |-> 0]
    ELSE [err |-> "none", val |-> ExtEuclid(a % m, m)[2] % m]

(***************************************************************************)
(* Miller-Rabin                                                            *)
(***************************************************************************)
\* candidate - 1 = 2^s * d with d odd: OddPart gives d, TwoExp gives s.
RECURSIVE OddPart(_)
OddPart(x) == IF x % 2 = 0 /\ x > 0 THEN OddPart(x \div 2) ELSE x

RECURSIVE TwoExp(_)
TwoExp(x) == IF x % 2 = 0 /\ x > 0 THEN 1 + TwoExp(x \div 2) ELSE 0

\* The witness loop for one base: x = base^d; squared up to s-1 times
\* looking for -1.  TRUE when the round does not prove compositeness.
RECURSIVE SquareLoop(_, _, _)
SquareLoop(x, left, n) ==
    IF x = n - 1 THEN TRUE
    ELSE IF left = 0 THEN FALSE
    ELSE SquareLoop(MulMod(x, x, n), left - 1, n)

RoundPasses(base, n) ==
    LET x == power_mod(base, OddPart(n - 1), n)
    IN  x = 1 \/ SquareLoop(x, TwoExp(n - 1) - 1, n)

\* Values <= 3 and even values by lookup; otherwise `rounds` random bases in
\* [2, candidate-2], here: accepted iff every base passes.
miller_rabin(candidate, rounds) ==
    IF candidate < 2 THEN FALSE
    ELSE IF candidate <= 3 THEN TRUE
    ELSE IF candidate % 2 = 0 THEN FALSE
    ELSE rounds >= 1 /\ \A base \in 2..(candidate - 2) : RoundPasses(base, candidate)

\* Rounds needed for error below 2^-target_bits at 4^-rounds per run.
estimate_k(bit_length, target_bits) == (target_bits + 1) \div 2

\* Odd integers with exactly `bits` significant bits (top and bottom bit set).
random_odd_number_nbits(bits) ==
    {x \in Pow2(bits - 1)..(Pow2(bits) - 1) : x % 2 = 1}

(***************************************************************************)
(* Block codec                                                             *)
(***************************************************************************)
\* Largest byte count b with 256^b <= modulus.
compute_block_size(modulus) == (bitlength(modulus) - 1) \div 8

\* Big-endian value of a byte sequence.
RECURSIVE block_from_bytes(_)
block_from_bytes(by) ==
    IF Len(by) = 0 THEN 0
    ELSE 256 * block_from_bytes(SubSeq(by, 1, Len(by) - 1)) + by[Len(by)]

\* Consecutive chunks of block_size bytes (the last may be shorter), each as
\* a big-endian integer.  Empty data gives no block.
RECURSIVE blocks_from_bytes(_, _)
blocks_from_bytes(data, block_size) ==
    IF Len(data) = 0 THEN << >>
    ELSE IF Len(data) <= block_size THEN <<block_from_bytes(data)>>
    ELSE <<block_from_bytes(SubSeq(data, 1, block_size))>>
         \o blocks_from_bytes(SubSeq(data, block_size + 1, Len(data)), block_size)

\* int.to_bytes(length, "big"): fits iff value < 256^length.
Fits(value, length) == length >= 0 /\ (length >= 4 \/ value < Pow256(length))

\* The big-endian digits of a value below 256^4, left-padded to `length`.
ToBytes(value, length) ==
    [i \in 1..length |->
        IF length - i >= 4 THEN 0 ELSE (value \div Pow256(length - i)) % 256]

\* Exactly `length` bytes, big-endian, left-padded with zeros; OverflowError
\* when the value needs more bytes (or the length is negative).
bytes_from_block(value, length) ==
    IF Fits(value, length) THEN [err |-> "none", val |-> ToBytes(value, length)]
    ELSE [err |-> "OverflowError", val |-> << >>]

RECURSIVE Join(_)
Join(chunks) == IF Len(chunks) = 0 THEN << >> ELSE Head(chunks) \o Join(Tail(chunks))

(***************************************************************************)
(* Bounds of the model and input sets                                      *)
(***************************************************************************)
MaxNlen == 10        \* rsa_keygen / diffie_primes are called with nlen in 7..MaxNlen
MaxTries == 2        \* ... and tries in 1..MaxTries
MaxIter == 2         \* outer while-loop iterations followed per call
MaxGDraws == 1       \* generator candidates followed per generate_generator call
MaxLen == 3          \* longest plaintext / digest, in bytes
MaxPrime == 41       \* is_generator is applied to the primes up to MaxPrime
MaxCipherLen == 5    \* longest received RSA ciphertext, in bytes
MaxPairs == 2        \* longest received ElGamal ciphertext, in pairs

\* Public exponents offered to rsa_keygen: even, 1, small odd, and the default.
EValues == {1, 2, 3, 5, 19, 65537}

(***************************************************************************)
(* rsa.py: rsa_keygen                                                      *)
(***************************************************************************)
RsaRounds == 12

p_size_of(nlen) == (nlen + 1) \div 2
q_size_of(nlen) == nlen - p_size_of(nlen)

\* candidate >= Decimal(2 ** (size - 1)) * Decimal(2).sqrt(), on integers.
AtLeastMin(candidate, size) == candidate * candidate >= Pow2(2 * size - 1)

min_d(nlen) == Pow2(nlen \div 2)

\* abs(p - q) >= 2 ** (nlen // 2 - 100); the right side is a float in (0, 1)
\* below nlen = 200.
p_q_far(p, q, nlen) ==
    IF nlen \div 2 >= 100 THEN Abs(p - q) >= Pow2(nlen \div 2 - 100)
    ELSE Abs(p - q) >= 1

\* Mutant of valid_p: the coprimality test of p - 1 and e left out.
valid_p_size_only(p_candidate, nlen, e) == AtLeastMin(p_candidate, p_size_of(nlen))

\* Lines 68-69: test_func of the search for p.
valid_p(p_candidate, nlen, e) ==
    AtLeastMin(p_candidate, p_size_of(nlen)) /\ coprimes(p_candidate - 1, e)

valid_q(q_candidate, p, nlen, e) ==
    /\ AtLeastMin(q_candidate, q_size_of(nlen))
    /\ coprimes(q_candidate - 1, e)
    /\ p_q_far(p, q_candidate, nlen)

\* Mutant of valid_d: the threshold forgotten.
valid_d_positive(d, nlen) == d > 0

\* Line 92: valid_d = d > min_d.
valid_d(d, nlen) == d > min_d(nlen)

\* The warnings rsa_keygen emits (every modelled e is below 2 ** 256).
rsa_warnings(nlen, e) ==
    (IF e <= Pow2(16) THEN {"e"} ELSE {}) \cup
    (IF nlen \notin {2048, 3072} THEN {"nlen"} ELSE {})

VARIABLES
    rsa,    \* the running rsa_keygen call: inputs, locals, position
    dh,     \* the running diffie_primes call
    io      \* the running encrypt / decrypt / sign / verify call chain

vars == <<rsa, dh, io>>

IdleRsa == [pc |-> "idle", nlen |-> 0, e |-> 0, tries |-> 0, warned |-> {},
            p |-> 0, q |-> 0, d |-> 0, n |-> 0,
            attempts |-> 0, draws |-> 0, iter |-> 0]
IdleDh == [pc |-> "idle", nlen |-> 0, tries |-> 0, k |-> 0, p |-> 0, q |-> 0, g |-> 0,
           attempts |-> 0, draws |-> 0, iter |-> 0, gdraws |-> 0]
IdleIo == [pc |-> "idle"]

\* rsa_keygen(nlen, e, tries) has just been called.
RsaCalls ==
    {[IdleRsa EXCEPT !.pc = "start", !.nlen = nl, !.e = ee, !.tries = t] :
        nl \in 7..MaxNlen, ee \in EValues, t \in 1..MaxTries}

\* Mutant of rsa_keygen_validate: the parity check of e left out.
rsa_keygen_validate_no_parity ==
    /\ rsa.pc = "start"
    /\ rsa' = IF rsa.nlen < 8 THEN [rsa EXCEPT !.pc = "ValueError"]
              ELSE [rsa EXCEPT !.pc = "draw_p", !.iter = 1,
                               !.warned = rsa_warnings(rsa.nlen, rsa.e)]
    /\ UNCHANGED <<dh, io>>

\* Lines 39-62: parameter checks, warnings, derived sizes.
rsa_keygen_validate ==
    /\ rsa.pc = "start"
    /\ rsa' = IF rsa.nlen < 8 THEN [rsa EXCEPT !.pc = "ValueError"]
              ELSE IF rsa.e % 2 # 1 THEN [rsa EXCEPT !.pc = "ValueError"]
              ELSE [rsa EXCEPT !.pc = "draw_p", !.iter = 1,
                               !.warned = rsa_warnings(rsa.nlen, rsa.e)]
    /\ UNCHANGED <<dh, io>>

\* Lines 71-73: one candidate of random_probable_prime for p.
rsa_keygen_draw_p ==
    /\ rsa.pc = "draw_p"
    /\ rsa.attempts < rsa.tries
    /\ \E cand \in random_odd_number_nbits(p_size_of(rsa.nlen)) :
         rsa' = IF miller_rabin(cand, RsaRounds) /\ valid_p(cand, rsa.nlen, rsa.e)
                THEN [rsa EXCEPT !.pc = "draw_q", !.p = cand, !.attempts = 0,
                                 !.draws = @ + 1]
                ELSE [rsa EXCEPT !.attempts = @ + 1, !.draws = @ + 1]
    /\ UNCHANGED <<dh, io>>

\* Lines 82-83: one candidate of random_probable_prime for q.
rsa_keygen_draw_q ==
    /\ rsa.pc = "draw_q"
    /\ rsa.attempts < rsa.tries
    /\ \E cand \in random_odd_number_nbits(q_size_of(rsa.nlen)) :
         rsa' = IF miller_rabin(cand, RsaRounds) /\ valid_q(cand, rsa.p, rsa.nlen, rsa.e)
                THEN [rsa EXCEPT !.pc = "compute", !.q = cand, !.attempts = 0,
                                 !.draws = @ + 1]
                ELSE [rsa EXCEPT !.attempts = @ + 1, !.draws = @ + 1]
    /\ UNCHANGED <<dh, io>>

\* random_probable_prime ran out of its `limit` candidates.
rsa_keygen_exhausted ==
    /\ rsa.pc \in {"draw_p", "draw_q"}
    /\ rsa.attempts >= rsa.tries
    /\ rsa' = [rsa EXCEPT !.pc = "PrimeSearchExhausted"]
    /\ UNCHANGED <<dh, io>>

\* Lines 87-93: lambda, d, n, the loop condition and the return.
rsa_keygen_compute ==
    /\ rsa.pc = "compute"
    /\ LET carmichael_lambda == lcm(rsa.p - 1, rsa.q - 1)
           inv == multiplicative_inverse(rsa.e, carmichael_lambda)
       IN  IF inv.err # "none"
           THEN rsa' = [rsa EXCEPT !.pc = "NoInverseError"]
           ELSE IF valid_d(inv.val, rsa.nlen)
           THEN rsa' = [rsa EXCEPT !.pc = "done", !.d = inv.val, !.n = rsa.p * rsa.q]
           ELSE /\ rsa.iter < MaxIter
                /\ rsa' = [rsa EXCEPT !.pc = "draw_p", !.d = inv.val,
                                      !.n = rsa.p * rsa.q, !.iter = @ + 1]
    /\ UNCHANGED <<dh, io>>

rsa_keygen ==
    \/ rsa_keygen_validate
    \/ rsa_keygen_draw_p
    \/ rsa_keygen_draw_q
    \/ rsa_keygen_exhausted
    \/ rsa_keygen_compute

(***************************************************************************)
(* diffie_hellman.py: diffie_primes, generate_generator, is_generator      *)
(***************************************************************************)
\* Mutant of is_generator: the scan runs one exponent too far (range(1, p)).
is_generator_scan_too_far(g, p) ==
    IF g < 2 \/ g > p - 1 THEN FALSE
    ELSE \A i \in 1..(p - 1) : power_mod(g, i, p) # 1

\* Lines 101-108: the range check, then the scan of g^i for i in 1..p-2.
is_generator(g, p) ==
    IF g < 2 \/ g > p - 1 THEN FALSE
    ELSE \A i \in 1..(p - 2) : power_mod(g, i, p) # 1

\* is_generator on the moduli diffie_primes can reach, evaluated once:
\* <<g, p>> is in GeneratorPairs iff is_generator(g, p), for p = 2q + 1 with q
\* a candidate of at most p_size_of(MaxNlen) bits.
GeneratorPairs ==
    UNION { {<<g, p>> : g \in {h \in 2..(p - 1) : is_generator(h, p)}} :
            p \in {2 * q + 1 : q \in 1..(Pow2(p_size_of(MaxNlen)) - 1)} }

\* diffie_primes(nlen, tries) has just been called.
DhCalls ==
    {[IdleDh EXCEPT !.pc = "start", !.nlen = nl, !.tries = t] :
        nl \in 7..MaxNlen, t \in 1..MaxTries}

\* Lines 40-49: the parameter check, q_size and the round count.
diffie_primes_validate ==
    /\ dh.pc = "start"
    /\ dh' = IF dh.nlen < 8 THEN [dh EXCEPT !.pc = "ValueError"]
             ELSE [dh EXCEPT !.pc = "draw_q", !.iter = 1,
                             !.k = estimate_k(dh.nlen, 128)]
    /\ UNCHANGED <<rsa, io>>

\* Lines 52-54: one candidate of random_probable_prime for q (no test_func).
diffie_primes_draw_q ==
    /\ dh.pc = "draw_q"
    /\ dh.attempts < dh.tries
    /\ \E cand \in random_odd_number_nbits(p_size_of(dh.nlen)) :
         dh' = IF miller_rabin(cand, dh.k)
               THEN [dh EXCEPT !.pc = "check_p", !.q = cand, !.attempts = 0,
                               !.draws = @ + 1]
               ELSE [dh EXCEPT !.attempts = @ + 1, !.draws = @ + 1]
    /\ UNCHANGED <<rsa, io>>

diffie_primes_exhausted ==
    /\ dh.pc = "draw_q"
    /\ dh.attempts >= dh.tries
    /\ dh' = [dh EXCEPT !.pc = "PrimeSearchExhausted"]
    /\ UNCHANGED <<rsa, io>>

\* Lines 56-58: p = 2q + 1, kept only if it passes miller_rabin.
diffie_primes_check_p ==
    /\ dh.pc = "check_p"
    /\ LET p == (2 * dh.q) + 1
       IN  IF miller_rabin(p, dh.k)
           THEN dh' = [dh EXCEPT !.pc = "generator", !.p = p]
           ELSE /\ dh.iter < MaxIter
                /\ dh' = [dh EXCEPT !.pc = "draw_q", !.p = p, !.iter = @ + 1]
    /\ UNCHANGED <<rsa, io>>

\* Mutant of generate_generator: the first g drawn is returned untested.
generate_generator_untested ==
    /\ dh.pc = "generator"
    /\ \E g \in 2..(dh.p - 1) :
         dh' = [dh EXCEPT !.pc = "done", !.g = g, !.gdraws = MaxGDraws + 1]
    /\ UNCHANGED <<rsa, io>>

\* Lines 78-82 (and 60-62): draw g in [2, p-1] until is_generator accepts it,
\* then return (p, q, g).
generate_generator ==
    /\ dh.pc = "generator"
    /\ \E g \in 2..(dh.p - 1) :
         IF <<g, dh.p>> \in GeneratorPairs
         THEN dh' = [dh EXCEPT !.pc = "done", !.g = g, !.gdraws = @ + 1]
         ELSE /\ dh.gdraws < MaxGDraws
              /\ dh' = [dh EXCEPT !.g = g, !.gdraws = @ + 1]
    /\ UNCHANGED <<rsa, io>>

diffie_primes ==
    \/ diffie_primes_validate
    \/ diffie_primes_draw_q
    \/ diffie_primes_exhausted
    \/ diffie_primes_check_p
    \/ generate_generator

\* Key generation: one call of rsa_keygen or of diffie_primes.
Init ==
    \/ rsa \in RsaCalls /\ dh = IdleDh /\ io = IdleIo
    \/ dh \in DhCalls /\ rsa = IdleRsa /\ io = IdleIo

Next == rsa_keygen \/ diffie_primes

Spec == Init /\ [][Next]_vars

(***************************************************************************)
(* Properties of key generation                                            *)
(***************************************************************************)
RsaReturned == rsa.pc = "done"
DhReturned == dh.pc = "done"

\* C5: every (p, q, g) returned by diffie_primes has p = 2q + 1, p accepted
\* by miller_rabin at the configured round count, and g in [2, p-1] accepted
\* by is_generator.
C5_DhParameters ==
    DhReturned =>
        /\ dh.p = 2 * dh.q + 1
        /\ miller_rabin(dh.p, estimate_k(dh.nlen, 128))
        /\ dh.g \in 2..(dh.p - 1)
        /\ is_generator(dh.g, dh.p)

\* Returned after a rejected safe-prime candidate and a rejected generator
\* candidate.
C5_Witness == DhReturned /\ dh.iter > 1 /\ dh.gdraws > 1

\* C12 as claimed: the p returned by diffie_primes(nlen) has exactly nlen
\* bits, 2^(nlen-1) <= p < 2^nlen.
C12_PrimeHasNlenBits ==
    DhReturned => (Pow2(dh.nlen - 1) <= dh.p /\ dh.p < Pow2(dh.nlen))

\* C7 as claimed: the candidates drawn by one call never exceed the retry
\* limit (tries per random_probable_prime call: one such call in
\* diffie_primes, two in rsa_keygen).
C7_DrawsBoundedByTries ==
    /\ rsa.draws <= 2 * rsa.tries
    /\ dh.draws <= dh.tries

C8_WitnessWarned == RsaReturned /\ rsa.warned = {"e", "nlen"}

\* e * d mod lcm(p-1, q-1), reduced first to stay in range.
EdModLambda ==
    LET lam == lcm(rsa.p - 1, rsa.q - 1)
    IN  MulMod(rsa.e % lam, rsa.d, lam)

\* C9 as claimed: a returned key has n = p*q, e*d = 1 mod lcm(p-1, q-1) and
\* d > 2^(nlen/2), i.e. d^2 > 2^nlen.
C9_AsClaimed ==
    RsaReturned =>
        /\ rsa.n = rsa.p * rsa.q
        /\ EdModLambda = 1
        /\ rsa.d * rsa.d > Pow2(rsa.nlen)

\* C9 amended: a returned key has n = p*q, e*d = 1 mod lcm(p-1, q-1) and
\* d > 2^floor(nlen/2); a computed d <= 2^floor(nlen/2) is not returned and
\* sends the call back to drawing p (and then q) afresh.
C9_KeyInvariant ==
    /\ RsaReturned =>
          /\ rsa.n = rsa.p * rsa.q
          /\ EdModLambda = 1
          /\ rsa.d > Pow2(rsa.nlen \div 2)
    /\ (rsa.pc \in {"draw_p", "draw_q", "compute"} /\ rsa.iter > 1) =>
          \/ rsa.pc = "draw_p" /\ rsa.d <= Pow2(rsa.nlen \div 2)
          \/ rsa.pc \in {"draw_q", "compute"} /\ rsa.draws > rsa.iter

\* A key whose d lies between 2^floor(nlen/2) and 2^(nlen/2) was returned
\* after an earlier draw was rejected.
C9_Witness == RsaReturned /\ rsa.iter > 1 /\ rsa.nlen % 2 = 1
(***************************************************************************)
(* is_generator as a function of (g, p)                                    *)
(***************************************************************************)
IsPrime(x) == x > 1 /\ \A f \in 2..(x - 1) : x % f # 0

\* is_generator(g, p) is about to be called with a prime p and any g
\* around [2, p-1].
GeneratorCalls ==
    {[pc |-> "is_generator", p |-> pp, g |-> gg, result |-> FALSE] :
        pp \in {x \in 2..MaxPrime : IsPrime(x)}, gg \in (-1)..(MaxPrime + 1)}

is_generator_call ==
    /\ io.pc = "is_generator"
    /\ io' = [io EXCEPT !.pc = "is_generator_done",
                        !.result = is_generator(io.g, io.p)]
    /\ UNCHANGED <<rsa, dh>>

InitGenerator == io \in GeneratorCalls /\ rsa = IdleRsa /\ dh = IdleDh

SpecGenerator == InitGenerator /\ [][is_generator_call]_vars

\* g^k mod p by k successive multiplications.
RECURSIVE NaivePower(_, _, _)
NaivePower(g, k, p) == IF k = 0 THEN 1 % p ELSE (NaivePower(g, k - 1, p) * g) % p

\* C6: for a prime p, is_generator(g, p) is True exactly when g is in
\* [2, p-1] and no g^k with 1 <= k <= p-2 is 1 mod p, which is exactly when
\* the powers g^1 .. g^(p-1) are all the nonzero residues mod p.
C6_IsGeneratorIffPrimitive ==
    io.pc = "is_generator_done" =>
        /\ io.result <=>
              /\ io.g \in 2..(io.p - 1)
              /\ \A k \in 1..(io.p - 2) : NaivePower(io.g, k, io.p) # 1
        /\ io.g \in 2..(io.p - 1) =>
              (io.result <=>
                 {NaivePower(io.g, k, io.p) : k \in 1..(io.p - 1)} = 1..(io.p - 1))

\* A generator was accepted (3 generates the residues mod 7).
C6_Witness == io.pc = "is_generator_done" /\ io.result /\ io.p = 7 /\ io.g = 3

\* An element of order below p-1 was rejected (2 has order 3 mod 7).
C6_WitnessRejected == io.pc = "is_generator_done" /\ ~io.result /\ io.p = 7 /\ io.g = 2
(***************************************************************************)
(* rsa.py: rsa_conversion, rsa_encrypt, rsa_decrypt                        *)
(* rsa_digitalsignature.py: rsa_sign, rsa_verify                           *)
(***************************************************************************)
Ok(v) == [err |-> "none", val |-> v]
Raised(kind) == [err |-> kind, val |-> << >>]

\* Lines 119-120: the blocks of `by`, each raised to ex modulo n.
rsa_conversion(by, n, ex, extract_blocks_size) ==
    LET blocks == blocks_from_bytes(by, extract_blocks_size)
    IN  [i \in 1..Len(blocks) |-> power_mod(blocks[i], ex, n)]

\* [block.to_bytes(length, byteorder="big") for block in blocks], joined.
BlocksToBytes(blocks, length) ==
    IF \E i \in 1..Len(blocks) : ~Fits(blocks[i], length) THEN Raised("OverflowError")
    ELSE Ok(Join([i \in 1..Len(blocks) |-> ToBytes(blocks[i], length)]))

\* Lines 141-157.  `len(by) % block_size` raises when block_size is 0.
rsa_encrypt(by, n, e) ==
    LET block_size == compute_block_size(n)
        encrypted_block_size == block_size + 1
    IN  IF block_size = 0 THEN Raised("ZeroDivisionError")
        ELSE
        LET last_size == IF Len(by) % block_size # 0 THEN Len(by) % block_size
                         ELSE block_size
            encrypted == BlocksToBytes(rsa_conversion(by, n, e, block_size),
                                       encrypted_block_size)
            size_bytes == bytes_from_block(last_size, block_size)
        IN  IF encrypted.err # "none" THEN encrypted
            ELSE IF size_bytes.err # "none" THEN size_bytes
            ELSE LET padding_block ==
                         BlocksToBytes(rsa_conversion(size_bytes.val, n, e, block_size),
                                       encrypted_block_size)
                 IN  IF padding_block.err # "none" THEN padding_block
                     ELSE Ok(encrypted.val \o padding_block.val)

\* Mutant of rsa_decrypt: the final block rendered at the full block size,
\* the size marker ignored.
rsa_decrypt_ignoring_marker(by, n, d) ==
    LET encrypted_block_size == compute_block_size(n) + 1
        decrypted == rsa_conversion(by, n, d, encrypted_block_size)
        count == Len(decrypted)
    IN  IF count < 2 THEN Raised("IndexError")
        ELSE BlocksToBytes(SubSeq(decrypted, 1, count - 1), encrypted_block_size - 1)

\* Lines 179-192.  decrypted[-1] / decrypted[-2] raise IndexError on fewer
\* than two blocks; bytes_from_block raises when a value does not fit.
rsa_decrypt(by, n, d) ==
    LET encrypted_block_size == compute_block_size(n) + 1
        decrypted == rsa_conversion(by, n, d, encrypted_block_size)
        count == Len(decrypted)
    IN  IF count < 2 THEN Raised("IndexError")
        ELSE
        LET last_size == decrypted[count]
            last_block == bytes_from_block(decrypted[count - 1], last_size)
            rest == BlocksToBytes(SubSeq(decrypted, 1, count - 2),
                                  encrypted_block_size - 1)
        IN  IF last_block.err # "none" THEN last_block
            ELSE IF rest.err # "none" THEN rest
            ELSE Ok(rest.val \o last_block.val)

\* A signer that leaves the digest unexponentiated.
rsa_sign_unit_exponent(by, n, d) == rsa_encrypt(by, n, 1)

\* rsa_digitalsignature.py line 47.
rsa_sign(by, n, d) == rsa_encrypt(by, n, d)

\* rsa_digitalsignature.py line 70: an exception of rsa_decrypt propagates.
rsa_verify(by, n, e, signature) ==
    LET recovered == rsa_decrypt(signature, n, e)
    IN  IF recovered.err # "none" THEN [err |-> recovered.err, val |-> FALSE]
        ELSE [err |-> "none", val |-> recovered.val = by]

\* Lines 52-93 as a relation: the keys ((n, e), d) rsa_keygen(nlen, e) can
\* return, i.e. the draws its loop accepts.
rsa_keygen_returns(nlen, e) ==
    IF nlen < 8 \/ e % 2 # 1 THEN {}
    ELSE
    LET ps == {c \in random_odd_number_nbits(p_size_of(nlen)) :
                  miller_rabin(c, RsaRounds) /\ valid_p(c, nlen, e)}
        qs == {c \in random_odd_number_nbits(q_size_of(nlen)) :
                  miller_rabin(c, RsaRounds)}
        draws == UNION {{<<p, q>> : q \in {c \in qs : valid_q(c, p, nlen, e)}} : p \in ps}
    IN  {[n |-> pq[1] * pq[2], e |-> e,
          d |-> multiplicative_inverse(e, lcm(pq[1] - 1, pq[2] - 1)).val] :
            pq \in {x \in draws :
                      valid_d(multiplicative_inverse(e, lcm(x[1] - 1, x[2] - 1)).val, nlen)}}

\* Byte values the model builds messages from; 0 gives leading, embedded and
\* trailing zero bytes.
ByteValues == {0, 65, 255}

RECURSIVE BytesOfLen(_)
BytesOfLen(k) ==
    IF k = 0 THEN {<< >>}
    ELSE {<<b>> \o rest : b \in ByteValues, rest \in BytesOfLen(k - 1)}

BytesUpTo(k) == UNION {BytesOfLen(j) : j \in 0..k}

\* (nlen, e) requests whose keys are used: block size 1 (nlen 9, 10) and
\* block size 2 (nlen 17).
SmallKeyRequests == {<<9, 5>>, <<10, 3>>, <<10, 65537>>}
WideKeyRequests == {<<17, 3>>}

KeysOf(requests) == UNION {rsa_keygen_returns(r[1], r[2]) : r \in requests}

\* One party's key with a message, and the key the counterpart holds: the
\* same pair, or (for the small keys) any other generated pair.
RsaCases(small, wide) ==
        {[scheme |-> "rsa", pc |-> "ready", key |-> k, peer |-> k2, msg |-> m,
          cipher |-> Ok(<< >>), out |-> Ok(<< >>), sig |-> Ok(<< >>),
          verdict |-> [err |-> "none", val |-> FALSE]] :
            k \in small, k2 \in small, m \in BytesUpTo(MaxLen)}
        \cup
        {[scheme |-> "rsa", pc |-> "ready", key |-> k, peer |-> k, msg |-> m,
          cipher |-> Ok(<< >>), out |-> Ok(<< >>), sig |-> Ok(<< >>),
          verdict |-> [err |-> "none", val |-> FALSE]] :
            k \in wide, m \in BytesUpTo(MaxLen)}

rsa_encrypt_call ==
    /\ io.pc = "ready"
    /\ io' = [io EXCEPT !.pc = "encrypted",
                        !.cipher = rsa_encrypt(io.msg, io.key.n, io.key.e)]
    /\ UNCHANGED <<rsa, dh>>

rsa_decrypt_call ==
    /\ io.pc = "encrypted"
    /\ io.scheme = "rsa"
    /\ io.cipher.err = "none"
    /\ io' = [io EXCEPT !.pc = "decrypted",
                        !.out = rsa_decrypt(io.cipher.val, io.key.n, io.key.d)]
    /\ UNCHANGED <<rsa, dh>>

rsa_sign_call ==
    /\ io.pc = "ready"
    /\ io' = [io EXCEPT !.pc = "signed",
                        !.sig = rsa_sign(io.msg, io.key.n, io.key.d)]
    /\ UNCHANGED <<rsa, dh>>

\* The counterpart verifies with the public key (n, e) it holds.
rsa_verify_call ==
    /\ io.pc = "signed"
    /\ io.sig.err = "none"
    /\ io' = [io EXCEPT !.pc = "verified",
                        !.verdict = rsa_verify(io.msg, io.peer.n, io.peer.e, io.sig.val)]
    /\ UNCHANGED <<rsa, dh>>

InitRsa ==
    /\ io \in RsaCases(KeysOf(SmallKeyRequests), KeysOf(WideKeyRequests))
    /\ rsa = IdleRsa /\ dh = IdleDh

NextRsa == rsa_encrypt_call \/ rsa_decrypt_call \/ rsa_sign_call \/ rsa_verify_call

SpecRsa == InitRsa /\ [][NextRsa]_vars

ByteLength(n) == (bitlength(n) + 7) \div 8

\* C1: for every generated key and every non-empty message (zero bytes
\* anywhere, any length, a multiple of the block size or not)
\* rsa_decrypt(rsa_encrypt(m, n, e), n, d) = m.
C1_RsaRoundTrip ==
    /\ (io.pc = "encrypted" /\ Len(io.msg) >= 1) => io.cipher.err = "none"
    /\ (io.pc = "decrypted" /\ Len(io.msg) >= 1) => io.out = Ok(io.msg)

\* A two-block message of three bytes with leading and embedded zero bytes
\* came back under a key of block size 2.
C1_Witness ==
    /\ io.pc = "decrypted"
    /\ io.msg = <<0, 0, 65>>
    /\ compute_block_size(io.key.n) = 2
    /\ io.out = Ok(io.msg)

\* C3 as claimed: a signature made with d verifies under (n, e) of the same
\* pair, for every byte string with fewer bytes than n has.
C3_AsClaimed ==
    (/\ io.pc = "verified"
     /\ io.peer = io.key
     /\ Len(io.msg) < ByteLength(io.key.n)) => io.verdict = [err |-> "none", val |-> TRUE]

\* C3: a signature made with d verifies under (n, e) of the same pair, for
\* every digest of at least one byte and fewer bytes than n has.
C3_SignVerify ==
    (/\ io.pc = "verified"
     /\ io.peer = io.key
     /\ Len(io.msg) >= 1
     /\ Len(io.msg) < ByteLength(io.key.n)) => io.verdict = [err |-> "none", val |-> TRUE]

C3_Witness ==
    /\ io.pc = "verified"
    /\ io.peer = io.key
    /\ io.msg = <<0, 65>>
    /\ io.verdict = [err |-> "none", val |-> TRUE]

\* C4 as claimed: verification under the public key of another pair
\* returns False, without raising.
C4_MismatchReturnsFalse ==
    (/\ io.pc = "verified"
     /\ io.peer # io.key
     /\ Len(io.msg) >= 1
     /\ Len(io.msg) < ByteLength(io.key.n)) => io.verdict = [err |-> "none", val |-> FALSE]

\* C11 as claimed: for a digest that, read as one integer, is below n, the
\* signature is the single value digest^d mod n: no splitting into blocks and
\* no block added.
C11_SingleValueSignature ==
    (/\ io.pc = "signed"
     /\ Len(io.msg) >= 1
     /\ block_from_bytes(io.msg) < io.key.n) =>
        /\ io.sig.err = "none"
        /\ Len(io.sig.val) <= ByteLength(io.key.n)
        /\ block_from_bytes(io.sig.val) =
               power_mod(block_from_bytes(io.msg), io.key.d, io.key.n)

(***************************************************************************)
(* elgamal.py                                                              *)
(***************************************************************************)
\* Line 32.
generate_public_key(p, g, ai) == power_mod(g, ai, p)

\* Lines 117-126: one (C1, C2) pair per block; keys[i] is the exponent
\* secrets.choice(range(2, p-1)) gives for block i.
elgamal_encrypt_aux(by, g, pk_bob, p, extract_blocks_size, keys) ==
    LET blocks == blocks_from_bytes(by, extract_blocks_size)
    IN  [i \in 1..Len(blocks) |->
            <<power_mod(g, keys[i], p),
              MulMod(power_mod(pk_bob, keys[i], p), blocks[i], p)>>]

\* [(block[0], block[1].to_bytes(length, 'big')) for block in pairs].
PairsToBytes(pairs, length) ==
    IF \E i \in 1..Len(pairs) : ~Fits(pairs[i][2], length) THEN Raised("OverflowError")
    ELSE Ok([i \in 1..Len(pairs) |-> <<pairs[i][1], ToBytes(pairs[i][2], length)>>])

\* Lines 72-96.  The argument k is not used; keys are the exponents drawn for
\* the message blocks, pad_key the one drawn for the size block.
elgamal_encrypt(by, g, k, pk_bob, p, keys, pad_key) ==
    LET block_size == compute_block_size(p)
        encrypted_block_size == block_size + 1
    IN  IF block_size = 0 THEN Raised("ZeroDivisionError")
        ELSE
        LET last_size == IF Len(by) % block_size # 0 THEN Len(by) % block_size
                         ELSE block_size
            encrypted == PairsToBytes(
                             elgamal_encrypt_aux(by, g, pk_bob, p, block_size, keys),
                             encrypted_block_size)
            size_bytes == bytes_from_block(last_size, block_size)
        IN  IF encrypted.err # "none" THEN encrypted
            ELSE IF size_bytes.err # "none" THEN size_bytes
            ELSE LET padding_block ==
                         PairsToBytes(
                             elgamal_encrypt_aux(size_bytes.val, g, pk_bob, p,
                                                 block_size, <<pad_key>>),
                             encrypted_block_size)
                 IN  IF padding_block.err # "none" THEN padding_block
                     ELSE Ok(encrypted.val \o padding_block.val)

\* Lines 179-186: C2 * inverse(C1^ai mod p) mod p for every pair;
\* multiplicative_inverse raises when C1^ai has no inverse.
elgamal_decrypt_aux(listC1, listC2, ai, p) ==
    LET count == IF Len(listC1) < Len(listC2) THEN Len(listC1) ELSE Len(listC2)
        inv(i) == multiplicative_inverse(power_mod(listC1[i], ai, p), p)
    IN  IF \E i \in 1..count : inv(i).err # "none" THEN Raised("NoInverseError")
        ELSE Ok([i \in 1..count |->
                    MulMod(inv(i).val, block_from_bytes(listC2[i]) % p, p)])

\* Lines 143-160.
elgamal_decrypt(by, p, ai) ==
    LET decryptedC1 == [i \in 1..Len(by) |-> by[i][1]]
        decryptedC2 == [i \in 1..Len(by) |-> by[i][2]]
        encrypted_block_size == compute_block_size(p) + 1
        decrypted == elgamal_decrypt_aux(decryptedC1, decryptedC2, ai, p)
    IN  IF decrypted.err # "none" THEN decrypted
        ELSE
        LET count == Len(decrypted.val)
        IN  IF count < 2 THEN Raised("IndexError")
            ELSE
            LET last_size == decrypted.val[count]
                last_block == bytes_from_block(decrypted.val[count - 1], last_size)
                rest == BlocksToBytes(SubSeq(decrypted.val, 1, count - 2),
                                      encrypted_block_size - 1)
            IN  IF last_block.err # "none" THEN last_block
                ELSE IF rest.err # "none" THEN rest
                ELSE Ok(rest.val \o last_block.val)

\* diffie_primes as a relation: the (p, q) its loop accepts for nlen.
diffie_primes_moduli(nlen) ==
    IF nlen < 8 THEN {}
    ELSE {<<2 * q + 1, q>> :
            q \in {c \in random_odd_number_nbits(p_size_of(nlen)) :
                      /\ miller_rabin(c, estimate_k(nlen, 128))
                      /\ miller_rabin(2 * c + 1, estimate_k(nlen, 128))}}

\* The random draws from lo..hi the ElGamal model follows.
DrawSample(lo, hi) == {lo, lo + 1, hi - 1, hi} \cap (lo..hi)

\* nlen values whose parameters are used: p below 256 (nlen 8) and above.
ElGamalNlens == {8, 15}

\* Bytes the ElGamal messages are built from.
ElGamalByteValues == {0, 255}

RECURSIVE ElGamalBytesOfLen(_)
ElGamalBytesOfLen(k) ==
    IF k = 0 THEN {<< >>}
    ELSE {<<b>> \o rest : b \in ElGamalByteValues, rest \in ElGamalBytesOfLen(k - 1)}

\* elgamal.py line 198: diffie_primes has returned (p, q, g); a message and
\* an (unused) k are at hand.
ElGamalCases(nlens) ==
    UNION {
      {[scheme |-> "elgamal", pc |-> "params", p |-> pq[1], q |-> pq[2], g |-> g,
        k |-> k, msg |-> m,
        pub |-> 0, priv |-> 0,
        cipher |-> Ok(<< >>), out |-> Ok(<< >>)] :
          g \in {h \in DrawSample(2, pq[1] - 1) : is_generator(h, pq[1])},
          k \in {0, 7},
          m \in UNION {ElGamalBytesOfLen(j) : j \in 0..MaxLen}} :
      pq \in UNION {diffie_primes_moduli(nl) : nl \in nlens}}

\* Lines 48-50.
elgamal_keygen ==
    /\ io.pc = "params"
    /\ \E ai \in DrawSample(2, io.p - 2) :
         io' = [io EXCEPT !.pc = "keyed", !.priv = ai,
                          !.pub = generate_public_key(io.p, io.g, ai)]
    /\ UNCHANGED <<rsa, dh>>

BlockCount(by, block_size) ==
    IF block_size = 0 THEN 0 ELSE (Len(by) + block_size - 1) \div block_size

elgamal_encrypt_call ==
    /\ io.pc = "keyed"
    /\ \E keys \in [1..BlockCount(io.msg, compute_block_size(io.p)) ->
                        {2, io.p - 2}],
          pad_key \in {2, io.p - 2} :
         io' = [io EXCEPT !.pc = "encrypted",
                          !.cipher = elgamal_encrypt(io.msg, io.g, io.k, io.pub,
                                                     io.p, keys, pad_key)]
    /\ UNCHANGED <<rsa, dh>>

elgamal_decrypt_call ==
    /\ io.pc = "encrypted"
    /\ io.scheme = "elgamal"
    /\ io.cipher.err = "none"
    /\ io' = [io EXCEPT !.pc = "decrypted",
                        !.out = elgamal_decrypt(io.cipher.val, io.p, io.priv)]
    /\ UNCHANGED <<rsa, dh>>

InitElGamal == io \in ElGamalCases(ElGamalNlens) /\ rsa = IdleRsa /\ dh = IdleDh

NextElGamal == elgamal_keygen \/ elgamal_encrypt_call \/ elgamal_decrypt_call

SpecElGamal == InitElGamal /\ [][NextElGamal]_vars

\* C2 as claimed: for parameters from diffie_primes, a key pair from
\* elgamal_keygen, any k and any byte string m, decryption of the encryption
\* gives m back.
C2_ElGamalRoundTrip ==
    /\ io.pc = "encrypted" => io.cipher.err = "none"
    /\ io.pc = "decrypted" => io.out = Ok(io.msg)

\* What does hold: with a modulus of at least one byte of capacity and a
\* non-empty message the round trip succeeds.
ElGamalRoundTripWhenFramed ==
    (compute_block_size(io.p) >= 1 /\ Len(io.msg) >= 1) =>
        /\ io.pc = "encrypted" => io.cipher.err = "none"
        /\ io.pc = "decrypted" => io.out = Ok(io.msg)

(***************************************************************************)
(* Decryption of received ciphertexts that no encryption produced          *)
(***************************************************************************)
\* rsa_decrypt is about to be called on any short byte string.
ReceivedRsa(keys) ==
    {[scheme |-> "rsa", pc |-> "encrypted", key |-> k, peer |-> k, msg |-> << >>,
      cipher |-> Ok(c), out |-> Ok(<< >>), sig |-> Ok(<< >>),
      verdict |-> [err |-> "none", val |-> FALSE]] :
        k \in keys, c \in BytesUpTo(MaxCipherLen)}

RECURSIVE SeqsUpTo(_, _)
SeqsUpTo(S, k) ==
    IF k = 0 THEN {<< >>}
    ELSE SeqsUpTo(S, k - 1) \cup
         {<<x>> \o rest : x \in S, rest \in {r \in SeqsUpTo(S, k - 1) : Len(r) = k - 1}}

\* elgamal_decrypt is about to be called on any short list of (C1, C2) pairs.
ReceivedElGamal(moduli) ==
    UNION {
      {[scheme |-> "elgamal", pc |-> "encrypted", p |-> pq[1], q |-> pq[2], g |-> 0,
        k |-> 0, msg |-> << >>, pub |-> 0, priv |-> ai,
        cipher |-> Ok(c), out |-> Ok(<< >>)] :
          ai \in DrawSample(2, pq[1] - 2),
          c \in SeqsUpTo({0, 2} \X (ElGamalBytesOfLen(1) \cup ElGamalBytesOfLen(2)),
                         MaxPairs)} :
      pq \in moduli}

InitReceived ==
    /\ io \in ReceivedRsa(KeysOf(SmallKeyRequests))
               \cup ReceivedElGamal(diffie_primes_moduli(15))
    /\ rsa = IdleRsa
    /\ dh = IdleDh

NextReceived == rsa_decrypt_call \/ elgamal_decrypt_call

SpecReceived == InitReceived /\ [][NextReceived]_vars

\* The three defects the claim names, for an RSA ciphertext ...
RsaMalformed(c, n, d) ==
    LET size == compute_block_size(n) + 1
    IN  \/ Len(c) % size # 0
        \/ Len(c) \div size < 2
        \/ power_mod(block_from_bytes(SubSeq(c, Len(c) - size + 1, Len(c))), d, n)
              \notin 1..(size - 1)

\* ... and for an ElGamal ciphertext.
ElGamalMalformed(c, p, ai) ==
    LET size == compute_block_size(p) + 1
        last == c[Len(c)]
        shared == multiplicative_inverse(power_mod(last[1], ai, p), p)
    IN  \/ \E i \in 1..Len(c) : Len(c[i][2]) # size
        \/ Len(c) < 2
        \/ shared.err # "none"
        \/ MulMod(shared.val, block_from_bytes(last[2]) % p, p) \notin 1..(size - 1)

Malformed ==
    IF io.scheme = "rsa" THEN RsaMalformed(io.cipher.val, io.key.n, io.key.d)
    ELSE ElGamalMalformed(io.cipher.val, io.p, io.priv)

\* C10 as claimed: decryption of a malformed ciphertext fails with an error
\* instead of returning bytes.
C10_MalformedRejected ==
    (io.pc = "decrypted" /\ Malformed) => io.out.err # "none"

(***************************************************************************)
(* Calls of multiplicative_inverse: rsa_keygen and elgamal_decrypt_aux     *)
(***************************************************************************)
\* Prime moduli of one and of two bytes of block capacity.
PrimeModuli == {p \in {257, 263, 269, 65537} : IsPrime(p)}

\* elgamal_keygen is about to be called with a prime p and any g of [2, p-1]
\* (a generator or not); a message is at hand.
ElGamalAnyBase(moduli) ==
    UNION {
      {[scheme |-> "elgamal", pc |-> "params", p |-> p, q |-> (p - 1) \div 2, g |-> g,
        k |-> 0, msg |-> m,
        pub |-> 0, priv |-> 0,
        cipher |-> Ok(<< >>), out |-> Ok(<< >>)] :
          g \in DrawSample(2, p - 1),
          m \in UNION {ElGamalBytesOfLen(j) : j \in 0..MaxLen}} :
      p \in moduli}

InitInverse ==
    \/ rsa \in RsaCalls /\ dh = IdleDh /\ io = IdleIo
    \/ io \in ElGamalAnyBase(PrimeModuli) /\ rsa = IdleRsa /\ dh = IdleDh

NextInverse == rsa_keygen \/ NextElGamal

SpecInverse == InitInverse /\ [][NextInverse]_vars

\* C13: multiplicative_inverse is never called on non-coprime arguments:
\* (1) when rsa_keygen reaches line 88, e is coprime with lcm(p-1, q-1), and
\* the call never ends in the no-inverse error; (2) for every pair of a
\* ciphertext elgamal_encrypt returned, C1^a mod p is coprime with p, and
\* elgamal_decrypt never ends in the no-inverse error.
C13_InverseExists ==
    /\ rsa.pc = "compute" => gcd(rsa.e, lcm(rsa.p - 1, rsa.q - 1)) = 1
    /\ rsa.pc # "NoInverseError"
    /\ (io.pc = "encrypted" /\ io.cipher.err = "none") =>
          \A i \in 1..Len(io.cipher.val) :
              LET shared == power_mod(io.cipher.val[i][1], io.priv, io.p)
              IN  shared # 0 /\ gcd(shared, io.p) = 1
    /\ io.pc = "decrypted" => io.out.err # "NoInverseError"

\* A two-block ciphertext made with the base g = p - 1, which generates only
\* {1, p-1}, has been decrypted.
C13_Witness ==
    /\ io.pc = "decrypted"
    /\ io.g = io.p - 1
    /\ Len(io.cipher.val) = 2
    /\ io.out = Ok(io.msg)

\* rsa_keygen has computed d for e = 3 from primes it accepted.
C13_WitnessKeygen == rsa.pc = "done" /\ rsa.e = 3 /\ rsa.d > 0
====
